---- MODULE Spec2Model ----
(***************************************************************************)
(* Decline-curve forecasting of pdp-genai: backend/pdp_forecast.py (the    *)
(* Arps model, forecast_well, calculate_mpe, evaluate_forecast,            *)
(* preprocess_data) and backend/app.py (get_well_data, update_forecast).   *)
(*                                                                         *)
(* Numbers.  Production values and fitted parameters are exact rationals   *)
(* <<n, d>> with d > 0 in lowest terms.  The result of calculate_mpe is    *)
(* kept as its IEEE-754 class ("fin", "pinf", "ninf", "nan"), which is     *)
(* what numpy's division by zero decides.                                  *)
(*                                                                         *)
(* scipy.optimize.curve_fit is not code of this repository.  It is a       *)
(* deterministic function of its arguments whose value the source does not *)
(* determine; the variable optimizer fixes one such function per behaviour *)
(* and Init ranges over a family of them.                                  *)
(***************************************************************************)
EXTENDS Integers, Sequences, FiniteSets, TLC

VARIABLES optimizer, arps, fw, df, pc, wells, idx, results, trace,
          df_filtered, getResp, updResp

vars == <<optimizer, arps, fw, df, pc, wells, idx, results, trace,
          df_filtered, getResp, updResp>>

----------------------------------------------------------------------------
(* Bounds of the model *)

NumWells == 2
MaxExtra == 2
MaxMonths == 3
MaxWindowLen == 3

(* Program constants *)

HoldOut == 12
MinRecords == 24
MaxSample == 10
StepDays == 30
DefaultMonths == 12

----------------------------------------------------------------------------
(* Exact rational arithmetic *)

Abs(x) == IF x < 0 THEN -x ELSE x

RECURSIVE GCD(_, _)
GCD(a, b) == IF b = 0 THEN a ELSE GCD(b, a % b)

Norm(n, d) ==
    LET g == GCD(Abs(n), Abs(d))
        s == IF d < 0 THEN -1 ELSE 1
    IN  <<(s * n) \div g, (s * d) \div g>>

R(n) == <<n, 1>>
RAdd(x, y) == Norm(x[1] * y[2] + y[1] * x[2], x[2] * y[2])
RSub(x, y) == Norm(x[1] * y[2] - y[1] * x[2], x[2] * y[2])
RMul(x, y) == Norm(x[1] * y[1], x[2] * y[2])
RDiv(x, y) == Norm(x[1] * y[2], x[2] * y[1])
RLeq(x, y) == x[1] * y[2] <= y[1] * x[2]
RSign(x) == IF x[1] > 0 THEN 1 ELSE IF x[1] < 0 THEN -1 ELSE 0

RECURSIVE RPow(_, _)
RPow(x, k) == IF k = 0 THEN R(1) ELSE RMul(x, RPow(x, k - 1))

----------------------------------------------------------------------------
(* arps_decline: q(t) = qi / (1 + b*di*t) ** (1/b).  The exponent 1/b is   *)
(* an integer for every b the model draws.  For b = 0 numpy evaluates      *)
(* 1/b to inf and 1.0 ** inf to 1.0, so the value is qi.                   *)

(* variant: elapsed time counted from 1 instead of 0 *)
arps_decline_shifted(t, qi, di, b) ==
    IF b[1] = 0 THEN qi
    ELSE RDiv(qi, RPow(RAdd(R(1), RMul(RMul(b, di), R(t + 1))), b[2] \div b[1]))

arps_decline(t, qi, di, b) ==
    IF b[1] = 0 THEN qi
    ELSE RDiv(qi, RPow(RAdd(R(1), RMul(RMul(b, di), R(t))), b[2] \div b[1]))

ArpsVec(ts, p) == [i \in DOMAIN ts |-> arps_decline(ts[i], p[1], p[2], p[3])]

QiSet == {R(0), R(1), R(50), R(1000), <<5, 2>>}
DiSet == {R(0), <<1, 10>>, <<1, 2>>, R(1)}
BSet == {R(0), <<1, 3>>, <<1, 2>>, R(1)}
TSet == {0, 1, StepDays, StepDays * HoldOut, 2 * StepDays * HoldOut}

(* one evaluation: the arguments, and the value once it is computed *)
ArpsArgs(t, qi, di, b) ==
    [t |-> t, qi |-> qi, di |-> di, b |-> b, q |-> R(0), done |-> FALSE]

NoArps == ArpsArgs(0, R(0), R(0), R(0))

EvalArps ==
        /\ ~arps.done
        /\ arps' = [arps EXCEPT !.q = arps_decline(arps.t, arps.qi, arps.di, arps.b),
                                !.done = TRUE]
        /\ UNCHANGED <<optimizer, fw, df, pc, wells, idx, results, trace,
                       df_filtered, getResp, updResp>>

----------------------------------------------------------------------------
(* Production data: a record is [well_api, prod_date, oil, gas]; prod_date *)
(* is a day number, oil and gas are non-negative volumes.                  *)

Rec(w, d, o, g) == [well_api |-> w, prod_date |-> d, oil |-> o, gas |-> g]

Column(data, c) ==
    [i \in DOMAIN data |->
        IF c = "oil" THEN data[i].oil
        ELSE IF c = "gas" THEN data[i].gas
        ELSE IF c = "prod_date" THEN data[i].prod_date
        ELSE data[i].well_api]

SeqMax(s) == CHOOSE m \in {s[i] : i \in DOMAIN s} : \A i \in DOMAIN s : s[i] <= m
SeqMin(s) == CHOOSE m \in {s[i] : i \in DOMAIN s} : \A i \in DOMAIN s : m <= s[i]

(* iloc[a:b] on 0-based half-open bounds already clipped to 0..Len *)
Slice(s, a, b) == [i \in 1..(IF b > a THEN b - a ELSE 0) |-> s[a + i]]

(* iloc[:-k] and iloc[-k:] *)
AllButLast(s, k) == Slice(s, 0, IF Len(s) > k THEN Len(s) - k ELSE 0)
LastK(s, k) == Slice(s, IF Len(s) > k THEN Len(s) - k ELSE 0, Len(s))

(* sort_values: by = "well_date" for ['well_api', 'prod_date'], "date" for *)
(* 'prod_date', "date_well" for ['prod_date', 'well_api']; rows of equal   *)
(* key keep their order                                                    *)
RowLess(by, r1, r2) ==
    IF by = "well_date"
    THEN \/ r1.well_api < r2.well_api
         \/ r1.well_api = r2.well_api /\ r1.prod_date < r2.prod_date
    ELSE IF by = "date_well"
    THEN \/ r1.prod_date < r2.prod_date
         \/ r1.prod_date = r2.prod_date /\ r1.well_api < r2.well_api
    ELSE r1.prod_date < r2.prod_date

SortRows(data, by) ==
    LET Before(j, i) ==
            \/ RowLess(by, data[j], data[i])
            \/ ~RowLess(by, data[i], data[j]) /\ j < i
        ranked == {<<Cardinality({j \in DOMAIN data : Before(j, i)}) + 1, i>>
                   : i \in DOMAIN data}
    IN  [k \in DOMAIN data |-> data[(CHOOSE p \in ranked : p[1] = k)[2]]]

(* np.arange(start, stop, step) for step > 0 *)
Arange(start, stop, step) ==
    [i \in 1..(IF stop > start THEN (stop - start + step - 1) \div step ELSE 0)
        |-> start + (i - 1) * step]

----------------------------------------------------------------------------
(* curve_fit(arps_decline, time, production, p0, bounds): the external     *)
(* optimiser.  Under optimizer opt it raises on the inputs opt.raises      *)
(* names and otherwise returns a triple inside the box                     *)
(* [0, inf) x [0, 1] x [0, 2].                                             *)

IsFlat(s) == \A i, j \in DOMAIN s : s[i] = s[j]

Optimizers ==
    [qi : {"max", "half", "zero"}, di : {R(0), <<1, 10>>},
     b : {R(0), <<1, 2>>, R(1)},
     raises : {"never", "flat", "short", "span", "always"}]

CurveFitRaises(opt, time, production) ==
    \/ opt.raises = "always"
    \/ opt.raises = "flat" /\ IsFlat(production)
    \/ opt.raises = "short" /\ Len(time) < 3
    \/ opt.raises = "span" /\ IsFlat(time)

curve_fit(opt, time, production, p0) ==
    IF CurveFitRaises(opt, time, production)
    THEN [ok |-> FALSE, error |-> "RuntimeError", popt |-> <<>>, calls |-> 1]
    ELSE [ok |-> TRUE, error |-> "",
          popt |-> << IF opt.qi = "max" THEN p0[1]
                      ELSE IF opt.qi = "half" THEN RDiv(p0[1], R(2))
                      ELSE R(0),
                      opt.di, opt.b >>,
          calls |-> 1]

(* fit_arps_decline: production.max() of an empty array raises ValueError  *)
(* before curve_fit is reached.                                            *)
fit_arps_decline(opt, time, production) ==
    IF Len(production) = 0
    THEN [ok |-> FALSE, error |-> "ValueError", popt |-> <<>>, calls |-> 0]
    ELSE curve_fit(opt, time, production,
                   <<R(SeqMax(production)), <<1, 10>>, <<1, 2>>>>)

----------------------------------------------------------------------------
(* forecast_well *)

(* variant: offsets anchored at day 0 of the calendar, not at the window *)
TimeOffsetsEpoch(well_data) ==
    [i \in DOMAIN well_data |-> well_data[i].prod_date]

TimeOffsets(well_data) ==
    [i \in DOMAIN well_data |->
        well_data[i].prod_date - SeqMin(Column(well_data, "prod_date"))]

(* variant: the range starts at the last historical offset *)
ForecastTimeFromLast(time, forecast_months) ==
    Arange(time[Len(time)],
           time[Len(time)] + StepDays * forecast_months, StepDays)

ForecastTime(time, forecast_months) ==
    Arange(time[Len(time)] + StepDays,
           time[Len(time)] + StepDays * (forecast_months + 1), StepDays)

Raised(well_data, months, time, err, calls) ==
    [called |-> TRUE, window |-> well_data, months |-> months, time |-> time,
     status |-> "raised", error |-> err, curveFitCalls |-> calls,
     oil_params |-> <<>>, gas_params |-> <<>>,
     forecast_time |-> <<>>, oil_forecast |-> <<>>, gas_forecast |-> <<>>]

forecast_well(opt, well_data, forecast_months) ==
    LET time == TimeOffsets(well_data)
        oil_fit == fit_arps_decline(opt, time, Column(well_data, "oil"))
        gas_fit == fit_arps_decline(opt, time, Column(well_data, "gas"))
    IN  IF ~oil_fit.ok
        THEN Raised(well_data, forecast_months, time, oil_fit.error, oil_fit.calls)
        ELSE IF ~gas_fit.ok
        THEN Raised(well_data, forecast_months, time, gas_fit.error,
                    oil_fit.calls + gas_fit.calls)
        ELSE LET forecast_time == ForecastTime(time, forecast_months)
             IN  [called |-> TRUE, window |-> well_data,
                  months |-> forecast_months, time |-> time,
                  status |-> "returned", error |-> "",
                  curveFitCalls |-> oil_fit.calls + gas_fit.calls,
                  oil_params |-> oil_fit.popt, gas_params |-> gas_fit.popt,
                  forecast_time |-> forecast_time,
                  oil_forecast |-> ArpsVec(forecast_time, oil_fit.popt),
                  gas_forecast |-> ArpsVec(forecast_time, gas_fit.popt)]

(* a call not made yet: its arguments only *)
Pending(well_data, forecast_months) ==
    [called |-> FALSE, window |-> well_data, months |-> forecast_months,
     time |-> <<>>, status |-> "", error |-> "", curveFitCalls |-> 0,
     oil_params |-> <<>>, gas_params |-> <<>>,
     forecast_time |-> <<>>, oil_forecast |-> <<>>, gas_forecast |-> <<>>]

NoCall == Pending(<<>>, 0)

(* Historical windows handed to forecast_well: sorted ascending by date,   *)
(* equal dates allowed, volumes following one of a few shapes.             *)

Shapes == {"decline", "zero", "flat"}

Volume(shape, i) ==
    IF shape = "zero" THEN 0
    ELSE IF shape = "flat" THEN 50
    ELSE IF i >= 33 THEN 1 ELSE 100 - 3 * i

Gaps == {0, StepDays, StepDays + 1}
Starts == {0, 5}

RECURSIVE DatesFrom(_, _)
DatesFrom(start, gaps) ==
    IF Len(gaps) = 0 THEN <<start>>
    ELSE <<start>> \o DatesFrom(start + gaps[1], Tail(gaps))

GapSeqs(n) == IF n <= 1 THEN {<<>>} ELSE [1..(n - 1) -> Gaps]

Windows ==
    {<<>>} \cup
    UNION { { [i \in 1..n |->
                 Rec(1, DatesFrom(start, gs)[i], Volume(so, i), Volume(sg, i))]
              : start \in Starts, gs \in GapSeqs(n), so \in Shapes, sg \in Shapes }
            : n \in 1..MaxWindowLen }

ForecastCall ==
        /\ ~fw.called
        /\ fw' = forecast_well(optimizer, fw.window, fw.months)
        /\ UNCHANGED <<optimizer, arps, df, pc, wells, idx, results, trace,
                       df_filtered, getResp, updResp>>

----------------------------------------------------------------------------
(* calculate_mpe: np.mean((forecast - actual) / actual) * 100, kept as the *)
(* IEEE class of the result.  A zero actual makes its term +inf, -inf or   *)
(* nan; the mean of terms is nan if one is nan or both infinities occur.   *)

Bcast(s, i) == IF Len(s) = 1 THEN s[1] ELSE s[i]

TermClass(a, f) ==
    IF a # 0 THEN "fin"
    ELSE IF RSign(RSub(f, R(a))) > 0 THEN "pinf"
    ELSE IF RSign(RSub(f, R(a))) < 0 THEN "ninf"
    ELSE "nan"

MeanClass(terms) ==
    IF terms = {} \/ "nan" \in terms \/ {"pinf", "ninf"} \subseteq terms THEN "nan"
    ELSE IF "pinf" \in terms THEN "pinf"
    ELSE IF "ninf" \in terms THEN "ninf"
    ELSE "fin"

Broadcastable(actual, forecast) ==
    Len(actual) = Len(forecast) \/ Len(actual) = 1 \/ Len(forecast) = 1

(* variant: terms with a zero actual are left out of the mean *)
calculate_mpe_masked(actual, forecast) ==
    LET n == IF Len(actual) > Len(forecast) THEN Len(actual) ELSE Len(forecast)
    IN  IF n = 0 \/ \E i \in 1..n : Bcast(actual, i) # 0 THEN "fin" ELSE "nan"

calculate_mpe(actual, forecast) ==
    LET n == IF Len(actual) > Len(forecast) THEN Len(actual) ELSE Len(forecast)
    IN  MeanClass({TermClass(Bcast(actual, i), Bcast(forecast, i)) : i \in 1..n})

----------------------------------------------------------------------------
(* evaluate_forecast *)

(* variant: the column as it is, repeated values kept *)
UniqueDup(col) == col

(* Series.unique(): the distinct values in order of first appearance *)
Unique(col) ==
    LET first == {i \in DOMAIN col : \A j \in 1..(i - 1) : col[j] # col[i]}
    IN  [k \in 1..Cardinality(first) |->
            col[CHOOSE i \in first : Cardinality({j \in first : j < i}) = k - 1]]

WellRows(data, well) == SelectSeq(data, LAMBDA r : r.well_api = well)

TrainWindow(well_data) == AllButLast(well_data, HoldOut)
TestWindow(well_data) == LastK(well_data, HoldOut)

(* the body of the try block for one well *)
ProcessWell(opt, data, well) ==
    LET well_data == WellRows(data, well)
        train_data == TrainWindow(well_data)
        test_data == TestWindow(well_data)
        f == forecast_well(opt, train_data, DefaultMonths)
        base == [well_api |-> well, train |-> train_data, test |-> test_data]
    IN  IF f.status = "raised"
        THEN base @@ [ok |-> FALSE, error |-> f.error, oil_mpe |-> "", gas_mpe |-> ""]
        ELSE IF ~Broadcastable(Column(test_data, "oil"), f.oil_forecast)
        THEN base @@ [ok |-> FALSE, error |-> "ValueError", oil_mpe |-> "", gas_mpe |-> ""]
        ELSE base @@ [ok |-> TRUE, error |-> "",
                      oil_mpe |-> calculate_mpe(Column(test_data, "oil"), f.oil_forecast),
                      gas_mpe |-> calculate_mpe(Column(test_data, "gas"), f.gas_forecast)]

(* variant: no except clause, the exception leaves evaluate_forecast *)
AfterWellPropagate(outcome, res) ==
    IF outcome.ok
    THEN [results |-> Append(res, [well_api |-> outcome.well_api,
                                   oil_mpe |-> outcome.oil_mpe,
                                   gas_mpe |-> outcome.gas_mpe]),
          pc |-> "loop"]
    ELSE [results |-> res, pc |-> "raised"]

(* results.append(...) on success; except Exception: print and go on *)
AfterWell(outcome, res) ==
    IF outcome.ok
    THEN [results |-> Append(res, [well_api |-> outcome.well_api,
                                   oil_mpe |-> outcome.oil_mpe,
                                   gas_mpe |-> outcome.gas_mpe]),
          pc |-> "loop"]
    ELSE [results |-> res, pc |-> "loop"]

EvaluateBegin ==
    /\ pc = "idle"
    /\ pc' = "loop"
    /\ results' = <<>>
    /\ wells' = Unique(Column(df, "well_api"))
    /\ idx' = 0
    /\ trace' = <<>>
    /\ UNCHANGED <<optimizer, arps, fw, df, df_filtered, getResp, updResp>>

EvaluateWell ==
    /\ pc = "loop"
    /\ idx < Len(wells)
    /\ LET outcome == ProcessWell(optimizer, df, wells[idx + 1])
           next == AfterWell(outcome, results)
       IN  /\ results' = next.results
           /\ pc' = next.pc
           /\ trace' = Append(trace, outcome)
    /\ idx' = idx + 1
    /\ UNCHANGED <<optimizer, arps, fw, df, wells, df_filtered, getResp, updResp>>

EvaluateReturn ==
    /\ pc = "loop"
    /\ idx = Len(wells)
    /\ pc' = "done"
    /\ UNCHANGED <<optimizer, arps, fw, df, wells, idx, results, trace,
                   df_filtered, getResp, updResp>>

(* Batches handed to evaluate_forecast: the rows of each well in date      *)
(* order; the wells one after the other, ascending or descending, or their *)
(* rows interleaved month by month.                                        *)

EvalShapes ==
    {<<"decline", "decline">>, <<"zero", "zerotail">>, <<"zerotail", "decline">>}

SeriesVolume(shape, i, n) ==
    IF shape = "zerotail" THEN (IF i = n THEN 0 ELSE Volume("decline", i))
    ELSE Volume(shape, i)

Series(w, n, shp) ==
    [i \in 1..n |-> Rec(w, StepDays * (i - 1),
                        SeriesVolume(shp[1], i, n), SeriesVolume(shp[2], i, n))]

EvalLens == {HoldOut, HoldOut + 1, HoldOut + MaxExtra}

RECURSIVE Concat(_, _)
Concat(blocks, order) ==
    IF Len(order) = 0 THEN <<>>
    ELSE blocks[Head(order)] \o Concat(blocks, Tail(order))

Batches ==
    UNION { { Concat(blocks, [k \in 1..NumWells |-> k]),
              Concat(blocks, [k \in 1..NumWells |-> NumWells + 1 - k]),
              SortRows(Concat(blocks, [k \in 1..NumWells |-> k]), "date_well") }
            : blocks \in { [w \in 1..NumWells |-> Series(w, ns[w], shp[w])]
                           : ns \in [1..NumWells -> EvalLens],
                             shp \in [1..NumWells -> EvalShapes] } }

EvalOptimizers ==
    {o \in Optimizers : o.di = <<1, 10>> /\ o.b = <<1, 2>> /\ o.qi # "half"
                        /\ o.raises \in {"never", "flat", "short"}}

----------------------------------------------------------------------------
(* preprocess_data: keep the wells with at least 24 rows, sample           *)
(* min(10, #valid) of them without replacement, sort by well and date.     *)

ValidWells(data) ==
    {w \in {data[i].well_api : i \in DOMAIN data} : Len(WellRows(data, w)) >= MinRecords}

Samples(data) ==
    LET valid == ValidWells(data)
        size == IF Cardinality(valid) < MaxSample THEN Cardinality(valid) ELSE MaxSample
    IN  {sel \in SUBSET valid : Cardinality(sel) = size}

preprocess_data(data, selected_wells) ==
    SortRows(SelectSeq(data, LAMBDA r : r.well_api \in selected_wells), "well_date")

----------------------------------------------------------------------------
(* app.py: get_well_data and update_forecast over the global df_filtered   *)

NoResp ==
    [status |-> 0, well_api |-> 0, called |-> FALSE, window |-> <<>>,
     rows |-> 0, oil_forecast |-> <<>>, gas_forecast |-> <<>>, params |-> <<>>]

Resp(status, well_api, rows, f, oil, gas, params) ==
    [status |-> status, well_api |-> well_api, called |-> f.called,
     window |-> f.window, rows |-> rows,
     oil_forecast |-> oil, gas_forecast |-> gas, params |-> params]

(* the fit window of get_well_data: the first 12 of the last 24 rows *)
GetWindow(well_data) ==
    Slice(LastK(SortRows(well_data, "date"), MinRecords), 0, HoldOut)

(* variant: nothing held out *)
UpdateWindowUnchecked(well_data) == AllButLast(well_data, 0)

(* the fit window of update_forecast: all rows but the last 12 *)
UpdateWindow(well_data) == AllButLast(well_data, HoldOut)

get_well_data(opt, data, well_api) ==
    LET well_data == WellRows(data, well_api)
    IN  IF Len(well_data) < MinRecords
        THEN Resp(400, well_api, Len(well_data), NoCall, <<>>, <<>>, <<>>)
        ELSE LET f == forecast_well(opt, GetWindow(well_data), DefaultMonths)
             IN  IF f.status = "raised"
                 THEN Resp(500, well_api, Len(well_data), f, <<>>, <<>>, <<>>)
                 ELSE Resp(200, well_api, Len(well_data), f,
                           f.oil_forecast, f.gas_forecast, <<>>)

Scale(forecast, pct) ==
    [i \in DOMAIN forecast |-> RMul(forecast[i], RAdd(R(1), RDiv(R(pct), R(100))))]

update_forecast(opt, data, well_api, params) ==
    LET well_data == WellRows(data, well_api)
    IN  IF Len(well_data) < MinRecords
        THEN Resp(400, well_api, Len(well_data), NoCall, <<>>, <<>>, params)
        ELSE LET f == forecast_well(opt, UpdateWindow(well_data), DefaultMonths)
             IN  IF f.status = "raised" \/ params = <<>>
                 THEN Resp(500, well_api, Len(well_data), f, <<>>, <<>>, params)
                 ELSE Resp(200, well_api, Len(well_data), f,
                           Scale(f.oil_forecast, params[1]),
                           Scale(f.gas_forecast, params[2]), params)

Adjustments == {0, 10}

(* request bodies: <<oil_adjustment, gas_adjustment>>, or <<>> for none *)
Bodies == {<<>>} \cup (Adjustments \X Adjustments)

(* well identifiers a client may ask for, one of them in no dataset *)
Requested == 1..(NumWells + 1)

GetWellData ==
    \E well_api \in Requested :
        /\ getResp.status = 0
        /\ getResp' = get_well_data(optimizer, df_filtered, well_api)
        /\ UNCHANGED <<optimizer, arps, fw, df, pc, wells, idx, results, trace,
                       df_filtered, updResp>>

UpdateForecast ==
    \E well_api \in Requested, params \in Bodies :
        /\ updResp.status = 0
        /\ updResp' = update_forecast(optimizer, df_filtered, well_api, params)
        /\ UNCHANGED <<optimizer, arps, fw, df, pc, wells, idx, results, trace,
                       df_filtered, getResp>>

(* Raw CSV contents: one block of rows per well, latest well and latest    *)
(* date first, so that the sort of preprocess_data has work to do.         *)

ApiShapes == {<<"decline", "decline">>, <<"zero", "decline">>}

ApiLens == {MinRecords - 1, MinRecords, MinRecords + MaxExtra}

Reverse(s) == [i \in DOMAIN s |-> s[Len(s) + 1 - i]]

RawData ==
    { Reverse(Concat(blocks, [k \in 1..NumWells |-> k]))
      : blocks \in { [w \in 1..NumWells |-> Series(w, ns[w], shp[w])]
                     : ns \in [1..NumWells -> ApiLens],
                       shp \in [1..NumWells -> ApiShapes] } }

ApiOptimizers ==
    {o \in Optimizers : o.di = <<1, 10>> /\ o.b = <<1, 2>> /\ o.qi = "max"
                        /\ o.raises \in {"never", "flat"}}

----------------------------------------------------------------------------
(* Specifications *)

Idle ==
    /\ pc = "idle"
    /\ wells = <<>>
    /\ idx = 0
    /\ results = <<>>
    /\ trace = <<>>
    /\ getResp = NoResp
    /\ updResp = NoResp

(* evaluate_forecast over a batch *)
Init ==
    /\ Idle
    /\ arps = NoArps
    /\ fw = NoCall
    /\ optimizer \in EvalOptimizers
    /\ df \in Batches
    /\ df_filtered = <<>>

Next == EvaluateBegin \/ EvaluateWell \/ EvaluateReturn

Spec == Init /\ [][Next]_vars

(* arps_decline as a pure function *)
InitArps ==
    /\ Idle
    /\ arps \in {ArpsArgs(t, qi, di, b) : t \in TSet, qi \in QiSet, di \in DiSet, b \in BSet}
    /\ fw = NoCall
    /\ optimizer \in {o \in ApiOptimizers : o.raises = "never"}
    /\ df = <<>>
    /\ df_filtered = <<>>

NextArps == EvalArps

SpecArps == InitArps /\ [][NextArps]_vars

(* forecast_well on a historical window *)
InitForecast ==
    /\ Idle
    /\ arps = NoArps
    /\ fw \in {Pending(w, m) : w \in Windows, m \in 0..MaxMonths}
    /\ optimizer \in Optimizers
    /\ df = <<>>
    /\ df_filtered = <<>>

NextForecast == ForecastCall

SpecForecast == InitForecast /\ [][NextForecast]_vars

(* the service: the dataset is loaded and preprocessed at start-up *)
InitApi ==
    /\ Idle
    /\ arps = NoArps
    /\ fw = NoCall
    /\ optimizer \in ApiOptimizers
    /\ df \in RawData
    /\ df_filtered \in {preprocess_data(df, sel) : sel \in Samples(df)}

NextApi == GetWellData \/ UpdateForecast

SpecApi == InitApi /\ [][NextApi]_vars

----------------------------------------------------------------------------
(* Properties of forecast_well (SpecForecast) *)

DateSet(well_data) == {well_data[i].prod_date : i \in DOMAIN well_data}

SortedByDate(well_data) ==
    \A i, j \in DOMAIN well_data : i <= j => well_data[i].prod_date <= well_data[j].prod_date

(* C1: whenever forecast_well returns for a non-empty window and            *)
(* forecast_months >= 0, the model was evaluated at exactly forecast_months *)
(* offsets, the i-th being last_offset + 30*i with last_offset the offset   *)
(* of the window's last record, and the oil and the gas forecast both have  *)
(* length forecast_months, in that chronological order.                     *)
C1_ForecastOffsets ==
    (fw.called /\ Len(fw.window) > 0 /\ fw.status = "returned") =>
        LET last_offset == fw.window[Len(fw.window)].prod_date
                           - SeqMin(Column(fw.window, "prod_date"))
        IN  /\ Len(fw.forecast_time) = fw.months
            /\ Len(fw.oil_forecast) = fw.months
            /\ Len(fw.gas_forecast) = fw.months
            /\ \A i \in 1..fw.months :
                /\ fw.forecast_time[i] = last_offset + StepDays * i
                /\ fw.oil_forecast[i] =
                     arps_decline(last_offset + StepDays * i, fw.oil_params[1],
                                  fw.oil_params[2], fw.oil_params[3])
                /\ fw.gas_forecast[i] =
                     arps_decline(last_offset + StepDays * i, fw.gas_params[1],
                                  fw.gas_params[2], fw.gas_params[3])

C1_Witness ==
    /\ fw.called
    /\ fw.status = "returned"
    /\ Len(fw.window) >= 2
    /\ fw.time[Len(fw.time)] > 0
    /\ fw.months >= 2
    /\ fw.oil_forecast[1] # fw.oil_forecast[2]

(* C3: a window with fewer than 2 distinct dates (empty, one record, or all  *)
(* records on one date) makes forecast_well fail with an insufficient-data  *)
(* error before any curve fit is attempted, and no forecast is returned.    *)
(* The code has no error type of its own, so any exception raised before    *)
(* curve_fit is reached counts as that error here.                          *)
C3_FailFast ==
    (fw.called /\ Cardinality(DateSet(fw.window)) < 2) =>
        /\ fw.status = "raised"
        /\ fw.curveFitCalls = 0
        /\ fw.oil_forecast = <<>> /\ fw.gas_forecast = <<>>

(* C7: for a window sorted ascending by date the time offsets are the days  *)
(* elapsed since the window's minimum date: the first is 0, they are        *)
(* non-decreasing and >= 0, and the offset of the last record, from which   *)
(* the forecast offsets start, is the maximum offset of the window.         *)
C7_TimeOffsets ==
    (fw.called /\ Len(fw.window) > 0 /\ SortedByDate(fw.window)) =>
        /\ Len(fw.time) = Len(fw.window)
        /\ fw.time[1] = 0
        /\ \A i \in DOMAIN fw.time :
            /\ fw.time[i] >= 0
            /\ fw.time[i] = fw.window[i].prod_date - SeqMin(Column(fw.window, "prod_date"))
        /\ \A i, j \in DOMAIN fw.time : i <= j => fw.time[i] <= fw.time[j]
        /\ fw.time[Len(fw.time)] = SeqMax(fw.time)
        /\ (fw.status = "returned" /\ fw.months >= 1) =>
                fw.forecast_time[1] = SeqMax(fw.time) + StepDays

C7_Witness ==
    /\ fw.called
    /\ fw.status = "returned"
    /\ fw.months >= 1
    /\ Len(fw.window) >= 3
    /\ fw.window[1].prod_date > 0
    /\ fw.time[2] = fw.time[1]
    /\ fw.time[3] > fw.time[2]

----------------------------------------------------------------------------
(* Properties of arps_decline (SpecArps) *)

(* C4: for valid parameters (qi >= 0, di in [0,1], b > 0),                  *)
(* arps_decline(0, qi, di, b) is exactly qi.                                *)
C4_ValueAtZero ==
    (/\ arps.done
     /\ arps.t = 0
     /\ RSign(arps.qi) >= 0
     /\ RSign(arps.di) >= 0 /\ RLeq(arps.di, R(1))
     /\ RSign(arps.b) > 0) => arps.q = arps.qi

C4_Witness ==
    /\ arps.done
    /\ arps.t = 0
    /\ RSign(arps.qi) > 0
    /\ RSign(arps.di) > 0
    /\ RSign(arps.b) > 0 /\ arps.b # R(1)
    /\ arps.q = arps.qi

----------------------------------------------------------------------------
(* Properties of evaluate_forecast (Spec) *)

WellSet(data) == {data[i].well_api : i \in DOMAIN data}

Scored(res) == {res[i].well_api : i \in DOMAIN res}

(* a well fails when its forecast or its MPE computation raises *)
Fails(w) == ~ProcessWell(optimizer, df, w).ok

FirstRow(data, w) ==
    LET rows == {i \in DOMAIN data : data[i].well_api = w}
    IN  CHOOSE i \in rows : \A j \in rows : i <= j

HasZero(data, c) == \E i \in DOMAIN data : Column(data, c)[i] = 0

(* C2: whatever wells of the batch fail, evaluate_forecast does not raise,  *)
(* no failing well is in the result collection and every other well has its *)
(* record: the loop goes on to the remaining wells after a failure.         *)
C2_FailureIsolation ==
    /\ pc # "raised"
    /\ pc = "done" =>
        /\ idx = Len(wells)
        /\ \A w \in WellSet(df) : Fails(w) <=> w \notin Scored(results)

C2_Witness ==
    /\ pc = "done"
    /\ Len(wells) >= 2
    /\ Fails(wells[1])
    /\ wells[Len(wells)] \in Scored(results)

(* C6: a zero among the held-out actual values of a well does not crash the *)
(* evaluation; the well's record is either omitted or carries a non-finite  *)
(* MPE for that commodity, never a finite one.                              *)
C6_ZeroActual ==
    /\ pc # "raised"
    /\ \A i \in DOMAIN results :
        LET test_data == LastK(WellRows(df, results[i].well_api), HoldOut)
        IN  /\ HasZero(test_data, "oil") => results[i].oil_mpe \in {"pinf", "ninf", "nan"}
            /\ HasZero(test_data, "gas") => results[i].gas_mpe \in {"pinf", "ninf", "nan"}

C6_Witness ==
    /\ pc = "done"
    /\ \E i, j \in DOMAIN results :
        /\ HasZero(LastK(WellRows(df, results[i].well_api), HoldOut), "oil")
        /\ results[i].oil_mpe = "pinf"
        /\ results[i].gas_mpe = "fin"
        /\ results[j].oil_mpe = "fin"

(* C8: every distinct well is processed exactly once, in order of first     *)
(* appearance; train is all rows but the last 12 and test the last 12, the  *)
(* two making up the well's series; the result collection always holds at   *)
(* most one record per well and only for processed wells, and on return     *)
(* exactly one record for each well scored successfully.                    *)
C8_OncePerWell ==
    pc \in {"loop", "done"} =>
        /\ Len(trace) = idx
        /\ idx <= Len(wells)
        /\ \A i, j \in DOMAIN trace : trace[i].well_api = trace[j].well_api => i = j
        /\ \A i, j \in DOMAIN trace :
            i < j => FirstRow(df, trace[i].well_api) < FirstRow(df, trace[j].well_api)
        /\ \A w \in WellSet(df), i \in DOMAIN trace :
            FirstRow(df, w) < FirstRow(df, trace[i].well_api) =>
                \E j \in 1..(i - 1) : trace[j].well_api = w
        /\ \A i \in DOMAIN trace :
            LET series == WellRows(df, trace[i].well_api)
            IN  /\ trace[i].train \o trace[i].test = series
                /\ Len(trace[i].test) =
                     (IF Len(series) < HoldOut THEN Len(series) ELSE HoldOut)
        /\ \A i, j \in DOMAIN results : results[i].well_api = results[j].well_api => i = j
        /\ Scored(results) = {trace[i].well_api : i \in {k \in DOMAIN trace : trace[k].ok}}
        /\ pc = "done" => {trace[i].well_api : i \in DOMAIN trace} = WellSet(df)

C8_Witness ==
    /\ pc = "done"
    /\ Len(trace) >= 2
    /\ trace[1].well_api > trace[2].well_api
    /\ Len(trace[1].train) >= 2
    /\ Len(trace[1].test) = HoldOut
    /\ trace[1].ok
    /\ ~trace[2].ok

----------------------------------------------------------------------------
(* Properties of the service endpoints (SpecApi) *)

RowSet(data) == {data[i] : i \in DOMAIN data}

MostRecent(data, well_api) ==
    RowSet(LastK(SortRows(WellRows(data, well_api), "date"), HoldOut))

GuardsCore(r) ==
    r.status # 0 =>
        /\ Len(WellRows(df_filtered, r.well_api)) < MinRecords =>
                r.status = 400 /\ ~r.called
        /\ r.called =>
            /\ Len(r.window) >= HoldOut
            /\ RowSet(r.window) \cap MostRecent(df_filtered, r.well_api) = {}
            /\ RowSet(r.window) \subseteq RowSet(WellRows(df_filtered, r.well_api))

C10_SameForecast ==
    (/\ getResp.status = 200
     /\ updResp.status = 200
     /\ getResp.well_api = updResp.well_api) =>
        /\ getResp.window = updResp.window
        /\ updResp.oil_forecast = Scale(getResp.oil_forecast, updResp.params[1])
        /\ updResp.gas_forecast = Scale(getResp.gas_forecast, updResp.params[2])
        /\ updResp.params = <<0, 0>> =>
            /\ updResp.oil_forecast = getResp.oil_forecast
            /\ updResp.gas_forecast = getResp.gas_forecast

====
